---- MODULE Spec2Model ----
(***************************************************************************)
(* Model of ligal/rating_selector's two text-to-speech utilities:          *)
(*   generate_tts.py  the batch pre-renderer (words.txt -> tts/<name>.mp3) *)
(*   tts_server.py    the on-demand GET /tts endpoint                      *)
(* Text is modelled as sequences of Unicode code points, so that strip(),  *)
(* lower(), quote() and os.path.join() are computed, not assumed.          *)
(***************************************************************************)
EXTENDS Integers, Sequences, FiniteSets, TLC

VARIABLES
    \* ---- generate_tts.py ----
    wordsFile,   \* public/words.txt: [exists, lines], lines as read by `for line in f`
    dirExists,   \* whether OUT_DIR exists
    fs,          \* files on disk: path -> [kind, of]; an absent path is not in DOMAIN fs
    pc,          \* position of the script
    words,       \* the list built at line 30
    idx,         \* position of the for loop of line 37 in words
    log,         \* what the run printed / invoked, in order: [kind, w]
    fs0,         \* history: fs when the current run started
    dir0,        \* history: dirExists when the current run started
    prev,        \* history: how the previous run ended, [outcome, calls]
    everFailed,  \* history: some synthesis-and-save step has raised since Init
    \* ---- the naming of two words (generate_tts.py, lines 39-43) ----
    pair,        \* the two words
    named,       \* their file names, as computed so far
    disk,        \* the paths created so far
    skipped,     \* per word, whether it found its path taken
    \* ---- tts_server.py, per request being handled ----
    args,        \* request.args: the query parameters given
    spc,         \* position of the handler
    calls,       \* the gTTS(...) invocations made for the request
    result,      \* what the engine did for the request
    bufOf,       \* the handler's local buf
    bufs,        \* the BytesIO objects alive: handle -> chunks written
    resp         \* the response returned

bvars == <<wordsFile, dirExists, fs, pc, words, idx, log, fs0, dir0, prev, everFailed>>

nvars == <<pair, named, disk, skipped>>

svars == <<args, spc, calls, result, bufOf, bufs, resp>>

vars == <<bvars, nvars, svars>>

(***************************************************************************)
(* Bounds of the model.                                                    *)
(***************************************************************************)
MaxLines == 2      \* lines of words.txt
MaxWordLen == 2    \* characters of a word whose name is computed
NumRequests == 2   \* requests the service handles at the same time

(***************************************************************************)
(* str.strip(): leading and trailing whitespace removed.                   *)
(***************************************************************************)
IsSpace(c) ==
    c \in (9..13) \cup (28..32) \cup {133, 160, 5760} \cup (8192..8202)
          \cup {8232, 8233, 8239, 8287, 12288}

RECURSIVE LStrip(_)
LStrip(s) == IF s = <<>> THEN s
             ELSE IF IsSpace(Head(s)) THEN LStrip(Tail(s)) ELSE s

RECURSIVE RStrip(_)
RStrip(s) == IF s = <<>> THEN s
             ELSE IF IsSpace(s[Len(s)]) THEN RStrip(SubSeq(s, 1, Len(s) - 1)) ELSE s

\* a strip() that strips nothing
StripNothing(s) == s

Strip(s) == RStrip(LStrip(s))

\* line 30: [line.strip() for line in f if line.strip()]
ReadWords(lines) ==
    LET kept == SelectSeq(lines, LAMBDA l : Strip(l) # <<>>)
    IN  [k \in 1..Len(kept) |-> Strip(kept[k])]

(***************************************************************************)
(* urllib.parse.quote(w, safe=''): the UTF-8 bytes of w, each byte outside *)
(* the always-safe set written as %XX (upper-case hex).                    *)
(***************************************************************************)
Utf8(c) ==
    IF c < 128 THEN <<c>>
    ELSE IF c < 2048 THEN <<192 + (c \div 64), 128 + (c % 64)>>
    ELSE IF c < 65536 THEN
        <<224 + (c \div 4096), 128 + ((c \div 64) % 64), 128 + (c % 64)>>
    ELSE <<240 + (c \div 262144), 128 + ((c \div 4096) % 64),
           128 + ((c \div 64) % 64), 128 + (c % 64)>>

\* an encoder that keeps only ASCII (encode('ascii', 'ignore'))
EncodeAsciiIgnore(s) ==
    SelectSeq(s, LAMBDA c : c < 128)

RECURSIVE EncodeUtf8(_)
EncodeUtf8(s) == IF s = <<>> THEN <<>> ELSE Utf8(Head(s)) \o EncodeUtf8(Tail(s))

\* A-Z a-z 0-9 _ . - ~
AlwaysSafe == (65..90) \cup (97..122) \cup (48..57) \cup {95, 46, 45, 126}

\* quote()'s default, safe='/'
SafeDefault == {47}

\* line 39 passes safe=''
SafeArg == {}

HexDigit(n) == IF n < 10 THEN 48 + n ELSE 55 + n

QuoteByte(b, safe) ==
    IF b \in AlwaysSafe \cup safe THEN <<b>>
    ELSE <<37, HexDigit(b \div 16), HexDigit(b % 16)>>

RECURSIVE QuoteBytes(_, _)
QuoteBytes(bs, safe) ==
    IF bs = <<>> THEN <<>>
    ELSE QuoteByte(Head(bs), safe) \o QuoteBytes(Tail(bs), safe)

quote(w, safe) == QuoteBytes(EncodeUtf8(w), safe)

\* ".mp3"
Mp3 == <<46, 109, 112, 51>>

\* line 39
fname(w) == quote(w, SafeArg) \o Mp3

(***************************************************************************)
(* Paths. os.path.join(a, b): b alone when b is absolute, else a/b.        *)
(***************************************************************************)
Join(a, b) ==
    IF b # <<>> /\ b[1] = 47 THEN b
    ELSE IF a = <<>> \/ a[Len(a)] = 47 THEN a \o b
    ELSE a \o <<47>> \o b

\* line 19: the directory of the script, an absolute path ("/b")
BASE == <<47, 98>>

\* line 21: BASE/public/tts
OUT_DIR == Join(Join(BASE, <<112, 117, 98, 108, 105, 99>>), <<116, 116, 115>>)

\* line 40
out_path(w) == Join(OUT_DIR, fname(w))

\* an existence test that never finds the file
ExistsNever(files, p) == FALSE

\* line 41: os.path.exists(out_path)
Exists(files, p) == p \in DOMAIN files

Put(files, p, c) == [q \in DOMAIN files \cup {p} |-> IF q = p THEN c ELSE files[q]]

\* content of a file that was there before any run
Old == [kind |-> "old", of |-> <<>>]
\* content of a file opened by tts.save() and not (yet) completely written
Partial(w) == [kind |-> "partial", of |-> w]
\* content of a file tts.save() finished: the audio the engine produced for w
Audio(w) == [kind |-> "audio", of |-> w]

(***************************************************************************)
(* Inputs: the lines words.txt may hold and the files OUT_DIR may hold.    *)
(***************************************************************************)
\* "\n", "a\n", " a\n", "/a\n" and a line holding the Hebrew letter alef
RawLines == { <<10>>, <<97, 10>>, <<32, 97, 10>>, <<47, 97, 10>>, <<1488, 10>> }

LineSeqs == UNION { [1..n -> RawLines] : n \in 0..MaxLines }

Vocabulary == { Strip(l) : l \in RawLines } \ { <<>> }

InitialDisks ==
    { [p \in { out_path(w) : w \in S } |-> Old] : S \in SUBSET Vocabulary }

NoPrev == [outcome |-> "none", calls |-> 0]

Generations(l) == Len(SelectSeq(l, LAMBDA e : e.kind = "generate"))

BatchInit ==
    /\ wordsFile \in { [exists |-> FALSE, lines |-> <<>>] }
                     \cup { [exists |-> TRUE, lines |-> ls] : ls \in LineSeqs }
    /\ dirExists \in BOOLEAN
    /\ fs \in InitialDisks
    /\ (~dirExists => fs = <<>>)
    /\ pc = "start"
    /\ words = <<>>
    /\ idx = 1
    /\ log = <<>>
    /\ fs0 = fs
    /\ dir0 = dirExists
    /\ prev = NoPrev
    /\ everFailed = FALSE

(***************************************************************************)
(* generate_tts.py, lines 23-36: the startup checks.                       *)
(***************************************************************************)
Startup ==
    /\ pc = "start"
    /\ IF ~wordsFile.exists
       THEN \* lines 23-25
            /\ pc' = "exit1"
            /\ UNCHANGED <<dirExists, words, idx>>
       ELSE \* line 27, lines 29-30, lines 32-36
            /\ dirExists' = TRUE
            /\ words' = ReadWords(wordsFile.lines)
            /\ pc' = IF words' = <<>> THEN "exit1" ELSE "loop"
            /\ idx' = 1
    /\ UNCHANGED <<wordsFile, fs, log, fs0, dir0, prev, everFailed,
                 nvars, svars>>

\* lines 37-43: the next word is reached; it is skipped when its file exists
NextWord ==
    /\ pc = "loop"
    /\ idx <= Len(words)
    /\ LET w == words[idx]
       IN  IF Exists(fs, out_path(w))
           THEN /\ log' = Append(log, [kind |-> "skip", w |-> w])
                /\ idx' = idx + 1
                /\ pc' = "loop"
           ELSE /\ pc' = "try"
                /\ UNCHANGED <<log, idx>>
    /\ UNCHANGED <<wordsFile, dirExists, fs, words, fs0, dir0, prev, everFailed,
                 nvars, svars>>

\* lines 48-49: where the run continues after `except Exception` caught a failure
AfterFailureAbort == "crashed"

AfterFailure == "loop"

\* lines 45-47: gTTS(w, lang='he') and the start of tts.save(out_path):
\* either something raises before the file exists, or the file is created
Generate ==
    /\ pc = "try"
    /\ LET w == words[idx]
       IN  \/ /\ log' = log \o << [kind |-> "generate", w |-> w],
                                  [kind |-> "failed", w |-> w] >>
              /\ everFailed' = TRUE
              /\ idx' = idx + 1
              /\ pc' = AfterFailure
              /\ UNCHANGED fs
           \/ /\ log' = Append(log, [kind |-> "generate", w |-> w])
              /\ fs' = Put(fs, out_path(w), Partial(w))
              /\ pc' = "save"
              /\ UNCHANGED <<idx, everFailed>>
    /\ UNCHANGED <<wordsFile, dirExists, words, fs0, dir0, prev,
                 nvars, svars>>

\* line 47: the engine streams the audio into the open file, or raises
Save ==
    /\ pc = "save"
    /\ LET w == words[idx]
       IN  \/ /\ fs' = Put(fs, out_path(w), Audio(w))
              /\ pc' = "loop"
              /\ UNCHANGED <<log, everFailed>>
           \/ /\ log' = Append(log, [kind |-> "failed", w |-> w])
              /\ everFailed' = TRUE
              /\ pc' = AfterFailure
              /\ UNCHANGED fs
    /\ idx' = idx + 1
    /\ UNCHANGED <<wordsFile, dirExists, words, fs0, dir0, prev,
                 nvars, svars>>

\* line 51
Done ==
    /\ pc = "loop"
    /\ idx > Len(words)
    /\ pc' = "done"
    /\ UNCHANGED <<wordsFile, dirExists, fs, words, idx, log, fs0, dir0, prev, everFailed,
                 nvars, svars>>

\* the process is interrupted (killed, Ctrl-C): nothing of the script catches it
Interrupt ==
    /\ pc \in {"start", "loop", "try", "save"}
    /\ pc' = "interrupted"
    /\ UNCHANGED <<wordsFile, dirExists, fs, words, idx, log, fs0, dir0, prev, everFailed,
                 nvars, svars>>

\* the script is run again on the same words.txt and the same disk
RunAgain ==
    /\ pc \in {"done", "exit1", "interrupted", "crashed"}
    /\ prev' = [outcome |-> pc, calls |-> Generations(log)]
    /\ pc' = "start"
    /\ words' = <<>>
    /\ idx' = 1
    /\ log' = <<>>
    /\ fs0' = fs
    /\ dir0' = dirExists
    /\ UNCHANGED <<wordsFile, dirExists, fs, everFailed,
                 nvars, svars>>

(***************************************************************************)
(* The naming of two words: lines 39-43 applied to a first word whose file *)
(* gets written and then to a second word.                                 *)
(***************************************************************************)
\* '%', '/', '2', 'F', Hebrew alef (2 UTF-8 bytes), the euro sign (3 UTF-8 bytes)
Alphabet == {37, 47, 50, 70, 1488, 8364}

NameableWords == UNION { [1..n -> Alphabet] : n \in 1..MaxWordLen }

NamingInit ==
    /\ pair \in NameableWords \X NameableWords
    /\ named = <<>>
    /\ disk = {}
    /\ skipped = <<>>

NamingIdle ==
    /\ pair = <<>>
    /\ named = <<>>
    /\ disk = {}
    /\ skipped = <<>>

\* lines 39-43 for the next word of the pair; a word not skipped gets its file
NameWord ==
    /\ Len(named) < Len(pair)
    /\ LET w == pair[Len(named) + 1]
       IN  /\ named' = Append(named, fname(w))
           /\ skipped' = Append(skipped, out_path(w) \in disk)
           /\ disk' = disk \cup {out_path(w)}
    /\ UNCHANGED <<pair, bvars, svars>>

NamingNext ==
    \/ NameWord

(***************************************************************************)
(* tts_server.py: GET /tts. Requests are handled concurrently, each in its *)
(* own activation of tts().                                                *)
(***************************************************************************)
Requests == 1..NumRequests

\* optional query parameters: a set with no value or with one
Texts == { {}, {<<>>}, {<<104, 105>>} }                    \* absent, "", "hi"
Langs == { {}, {<<104, 101>>}, {<<120, 120>>} }            \* absent, "he", "xx"
\* "1", "true", "TRUE", "Yes", "0", "on"
Slows == { <<49>>, <<116, 114, 117, 101>>, <<84, 82, 85, 69>>, <<89, 101, 115>>,
           <<48>>, <<111, 110>> }

Query(T, L, S) ==
    LET given == [text |-> T, lang |-> L, slow |-> S]
    IN  [k \in { j \in {"text", "lang", "slow"} : given[j] # {} } |->
            CHOOSE v \in given[k] : TRUE]

\* the requests made: every text with every lang, and every slow with and without text
Queries ==
    { Query(T, L, {}) : T \in Texts, L \in Langs }
        \cup { Query(T, {}, {v}) : T \in {{}, {<<104, 105>>}}, v \in Slows }

\* request.args.get(key, default)
Get(d, key, default) == IF key \in DOMAIN d THEN d[key] ELSE default

\* a lower() that changes nothing
LowerNothing(s) == s

\* str.lower(), on ASCII and Latin-1 letters
Lower(s) ==
    [k \in DOMAIN s |->
        IF s[k] \in (65..90) \cup ((192..222) \ {215}) THEN s[k] + 32 ELSE s[k]]

\* line 13: ('1', 'true', 'yes')
Truthy == { <<49>>, <<116, 114, 117, 101>>, <<121, 101, 115>> }

\* line 11
TextOf(d) == Get(d, "text", <<>>)
\* line 12: the default is 'he'
LangOf(d) == Get(d, "lang", <<104, 101>>)
\* line 13: the default is 'false'
SlowOf(d) == Lower(Get(d, "slow", <<102, 97, 108, 115, 101>>)) \in Truthy

\* a test that never finds the text missing
NotTextNever(text) == FALSE

\* line 15: `not text`
NotText(text) == text = <<>>

\* a buffer shared by every request
SharedBuffer(r) == [kind |-> "mem", id |-> 0]

\* line 20: BytesIO(), a fresh in-memory object local to the activation
NewBuffer(r) == [kind |-> "mem", id |-> r]

\* what the engine can raise: an error with a message, an error without one
Errors == { [type |-> "ValueError", msg |-> "Language not supported: xx"],
            [type |-> "Exception", msg |-> ""] }

\* str(e)
Str(e) == e.msg

\* the audio the engine produces for one call
Chunk(call, r) == [text |-> call.text, lang |-> call.lang, slow |-> call.slow, for |-> r]

NoJson == [none |-> TRUE]

\* line 16
MissingTextResponse ==
    [status |-> 400, mimetype |-> "application/json",
     json |-> [error |-> "missing text parameter"], data |-> <<>>]

\* a failure response that drops the description
FailureResponseBare(e) ==
    [status |-> 500, mimetype |-> "application/json",
     json |-> [error |-> "tts failed", details |-> ""], data |-> <<>>]

\* line 25
FailureResponse(e) ==
    [status |-> 500, mimetype |-> "application/json",
     json |-> [error |-> "tts failed", details |-> Str(e)], data |-> <<>>]

\* line 23
AudioResponse(data) ==
    [status |-> 200, mimetype |-> "audio/mpeg", json |-> NoJson, data |-> data]

NoArgs == <<>>
NoResult == [kind |-> "none"]
NoResponse == [status |-> 0]
NoBuffer == [kind |-> "none", id |-> 0]

ServerInit ==
    /\ args = [r \in Requests |-> NoArgs]
    /\ spc = [r \in Requests |-> "idle"]
    /\ calls = [r \in Requests |-> <<>>]
    /\ result = [r \in Requests |-> NoResult]
    /\ bufOf = [r \in Requests |-> NoBuffer]
    /\ bufs = <<>>
    /\ resp = [r \in Requests |-> NoResponse]

ServerIdle ==
    /\ args = <<>>
    /\ spc = <<>>
    /\ calls = <<>>
    /\ result = <<>>
    /\ bufOf = <<>>
    /\ bufs = <<>>
    /\ resp = <<>>

BatchIdle ==
    /\ wordsFile = [exists |-> FALSE, lines |-> <<>>]
    /\ dirExists = FALSE
    /\ fs = <<>>
    /\ pc = "off"
    /\ words = <<>>
    /\ idx = 1
    /\ log = <<>>
    /\ fs0 = <<>>
    /\ dir0 = FALSE
    /\ prev = NoPrev
    /\ everFailed = FALSE

\* line 9: a GET /tts request arrives and is routed to tts()
Receive(r, q) ==
    /\ spc[r] = "idle"
    /\ args' = [args EXCEPT ![r] = q]
    /\ spc' = [spc EXCEPT ![r] = "received"]
    /\ UNCHANGED <<calls, result, bufOf, bufs, resp, bvars, nvars>>

\* lines 11-20: the parameters are read; without text the answer is 400,
\* else gTTS(text, lang, slow) is made and a new buffer created
Handle(r) ==
    /\ spc[r] = "received"
    /\ IF NotText(TextOf(args[r]))
       THEN /\ resp' = [resp EXCEPT ![r] = MissingTextResponse]
            /\ spc' = [spc EXCEPT ![r] = "responded"]
            /\ UNCHANGED <<calls, bufOf, bufs>>
       ELSE /\ calls' = [calls EXCEPT ![r] =
                            Append(@, [text |-> TextOf(args[r]),
                                       lang |-> LangOf(args[r]),
                                       slow |-> SlowOf(args[r])])]
            /\ bufOf' = [bufOf EXCEPT ![r] = NewBuffer(r)]
            /\ bufs' = Put(bufs, NewBuffer(r), <<>>)
            /\ spc' = [spc EXCEPT ![r] = "synth"]
            /\ UNCHANGED resp
    /\ UNCHANGED <<args, result, bvars, nvars>>

\* line 21 (and the constructor of line 19): the engine writes the audio into
\* the buffer, or raises and lines 24-25 answer 500
Synthesize(r) ==
    /\ spc[r] = "synth"
    /\ \/ /\ result' = [result EXCEPT ![r] = [kind |-> "ok"]]
          /\ bufs' = [bufs EXCEPT ![bufOf[r]] = Append(@, Chunk(calls[r][Len(calls[r])], r))]
          /\ spc' = [spc EXCEPT ![r] = "written"]
          /\ UNCHANGED resp
       \/ \E e \in Errors :
             /\ result' = [result EXCEPT ![r] = [kind |-> "raised", e |-> e]]
             /\ resp' = [resp EXCEPT ![r] = FailureResponse(e)]
             /\ spc' = [spc EXCEPT ![r] = "responded"]
             /\ UNCHANGED bufs
    /\ UNCHANGED <<args, calls, bufOf, bvars, nvars>>

\* lines 22-23: the buffer is sent as the response
SendFile(r) ==
    /\ spc[r] = "written"
    /\ resp' = [resp EXCEPT ![r] = AudioResponse(bufs[bufOf[r]])]
    /\ spc' = [spc EXCEPT ![r] = "responded"]
    /\ UNCHANGED <<args, calls, result, bufOf, bufs, bvars, nvars>>

\* the response has gone out; the activation and what only it referenced are gone
Finish(r) ==
    /\ spc[r] = "responded"
    /\ args' = [args EXCEPT ![r] = NoArgs]
    /\ spc' = [spc EXCEPT ![r] = "idle"]
    /\ calls' = [calls EXCEPT ![r] = <<>>]
    /\ result' = [result EXCEPT ![r] = NoResult]
    /\ resp' = [resp EXCEPT ![r] = NoResponse]
    /\ bufOf' = [bufOf EXCEPT ![r] = NoBuffer]
    /\ bufs' = [h \in { bufOf'[q] : q \in Requests } \cap DOMAIN bufs |-> bufs[h]]
    /\ UNCHANGED <<bvars, nvars>>

ServerNext ==
    \/ \E r \in Requests, q \in Queries : Receive(r, q)
    \/ \E r \in Requests : Handle(r)
    \/ \E r \in Requests : Synthesize(r)
    \/ \E r \in Requests : SendFile(r)
    \/ \E r \in Requests : Finish(r)

BatchNext ==
    \/ Startup
    \/ NextWord
    \/ Generate
    \/ Save
    \/ Done
    \/ Interrupt
    \/ RunAgain

\* a run (and re-runs) of generate_tts.py
Init == BatchInit /\ NamingIdle /\ ServerIdle

Spec == Init /\ [][BatchNext]_vars

\* the naming of two words
InitNaming == BatchIdle /\ NamingInit /\ ServerIdle

NamingSpec == InitNaming /\ [][NamingNext]_vars

\* the service of tts_server.py
InitServer == BatchIdle /\ NamingIdle /\ ServerInit

ServerSpec == InitServer /\ [][ServerNext]_vars

\* the batch run without interruptions, every step of the script eventually taken
\* (the engine's calls return: a result or an exception)
LiveNext ==
    \/ Startup
    \/ NextWord
    \/ Generate
    \/ Save
    \/ Done
    \/ RunAgain

LiveSpec == Init /\ [][LiveNext]_vars /\ WF_vars(LiveNext)

(***************************************************************************)
(* Vocabulary of the properties.                                           *)
(***************************************************************************)
WordSet == { words[k] : k \in DOMAIN words }

\* the words the run invoked the engine for
Attempted(l) == { l[k].w : k \in { j \in DOMAIN l : l[j].kind = "generate" } }

\* the words the run dealt with, in order: skipped or attempted
Handled(l) ==
    LET h == SelectSeq(l, LAMBDA e : e.kind \in {"skip", "generate"})
    IN  [k \in 1..Len(h) |-> h[k].w]

IsPrefix(s, t) == Len(s) <= Len(t) /\ s = SubSeq(t, 1, Len(s))

Complete(files, p) == p \in DOMAIN files /\ files[p].kind \in {"old", "audio"}

\* p names a file directly in directory d
DirectlyUnder(d, p) ==
    /\ Len(p) > Len(d) + 1
    /\ SubSeq(p, 1, Len(d)) = d
    /\ p[Len(d) + 1] = 47
    /\ \A k \in (Len(d) + 2)..Len(p) : p[k] # 47

BaseName(d, p) == SubSeq(p, Len(d) + 2, Len(p))

HexValue(c) == IF c <= 57 THEN c - 48 ELSE c - 55

\* percent-decoding, the inverse the naming scheme promises
RECURSIVE Unquote(_)
Unquote(s) ==
    IF s = <<>> THEN <<>>
    ELSE IF s[1] = 37 /\ Len(s) >= 3
         THEN <<16 * HexValue(s[2]) + HexValue(s[3])>> \o Unquote(SubSeq(s, 4, Len(s)))
         ELSE <<s[1]>> \o Unquote(Tail(s))

RECURSIVE Utf8Bytes(_)
Utf8Bytes(s) == IF s = <<>> THEN <<>> ELSE Utf8(Head(s)) \o Utf8Bytes(Tail(s))

\* name is '<percent-encoded w>.mp3': its stem holds unreserved characters and
\* %XX triplets only, decodes to the UTF-8 bytes of w, and encodes every byte
\* outside the unreserved set and no other
IsEncodedNameOf(name, w) ==
    /\ Len(name) > Len(Mp3)
    /\ SubSeq(name, Len(name) - Len(Mp3) + 1, Len(name)) = Mp3
    /\ LET stem == SubSeq(name, 1, Len(name) - Len(Mp3))
           bytes == Utf8Bytes(w)
       IN  /\ \A k \in DOMAIN stem : stem[k] \in AlwaysSafe \cup {37}
           /\ Unquote(stem) = bytes
           /\ Len(stem) = Len(bytes)
                  + 2 * Cardinality({ k \in DOMAIN bytes : bytes[k] \notin AlwaysSafe })

\* words.txt is missing, or no line of it has a non-blank character
NoInput ==
    \/ ~wordsFile.exists
    \/ \A k \in DOMAIN wordsFile.lines :
           \A j \in DOMAIN wordsFile.lines[k] : IsSpace(wordsFile.lines[k][j])

(***************************************************************************)
(* C1 (as stated): after a run that reached 'Done', a second run to 'Done' *)
(* performs zero synthesis calls and leaves exactly the same set of files, *)
(* whatever the engine did in the first run.                               *)
(***************************************************************************)
C1_SecondRunDoesNothing ==
    (prev.outcome = "done" /\ pc = "done") =>
        (Generations(log) = 0 /\ DOMAIN fs = DOMAIN fs0)

(***************************************************************************)
(* C1 (amended): after a run that reached 'Done', a second run to 'Done'   *)
(* invokes the engine exactly for the words that had no file when it       *)
(* started; when every word had a file it performs zero synthesis calls    *)
(* and leaves the disk exactly as the first run left it.                   *)
(***************************************************************************)
C1_SecondRunRetriesOnlyMissing ==
    (prev.outcome = "done" /\ pc = "done") =>
        /\ Attempted(log) = { w \in WordSet : out_path(w) \notin DOMAIN fs0 }
        /\ (\A w \in WordSet : out_path(w) \in DOMAIN fs0) =>
               (Generations(log) = 0 /\ fs = fs0)

\* a second run that found every file of a first run that had synthesized some
C1_Witness ==
    /\ prev.outcome = "done" /\ prev.calls > 0
    /\ pc = "done" /\ words # <<>>
    /\ Generations(log) = 0 /\ fs = fs0

(***************************************************************************)
(* C2 (as stated): after an interrupted run, an uninterrupted run with a   *)
(* working engine ends with a complete audio artifact at the path of every *)
(* word of the list.                                                       *)
(***************************************************************************)
C2_ResumeCompletesEveryWord ==
    (prev.outcome = "interrupted" /\ ~everFailed /\ pc = "done") =>
        \A w \in WordSet : Complete(fs, out_path(w))

(***************************************************************************)
(* C3: a synthesis failure never aborts the run: the run never crashes,    *)
(* the words dealt with (skipped, or attempted once) are always a prefix   *)
(* of the list in list order and the whole list at 'Done', and a run that  *)
(* entered the loop reaches 'Done'.                                        *)
(***************************************************************************)
C3_FailureDoesNotAbort ==
    /\ [](pc # "crashed")
    /\ [](IsPrefix(Handled(log), words))
    /\ [](pc = "done" => Handled(log) = words)
    /\ ((pc = "loop") ~> (pc = "done"))

\* a finished run in which a word was dealt with after another word had failed
C3_Witness ==
    /\ pc = "done"
    /\ \E k \in DOMAIN log :
          /\ log[k].kind = "failed"
          /\ k < Len(log)
          /\ log[k + 1].kind \in {"skip", "generate"}

(***************************************************************************)
(* C4: the engine is invoked for a word iff no file exists at its path     *)
(* when the word is reached; a file that exists is never changed or        *)
(* removed (but for the file the running save has itself just opened);     *)
(* every path written is '<percent-encoded word>.mp3' directly under       *)
(* OUT_DIR, for the word of the list being processed.                      *)
(***************************************************************************)
C4_SkipIffExistsAndFrame ==
    [][ /\ (pc = "loop" /\ idx <= Len(words) /\ pc' # "interrupted") =>
              /\ (pc' = "try") <=> (out_path(words[idx]) \notin DOMAIN fs)
              /\ (log' = Append(log, [kind |-> "skip", w |-> words[idx]]))
                     <=> (out_path(words[idx]) \in DOMAIN fs)
        /\ (pc = "try" /\ pc' # "interrupted") => Generations(log') = Generations(log) + 1
        /\ (Generations(log') > Generations(log)) =>
              (pc = "try" /\ out_path(words[idx]) \notin DOMAIN fs)
        /\ \A p \in DOMAIN fs :
              /\ p \in DOMAIN fs'
              /\ \/ fs'[p] = fs[p]
                 \/ pc = "save" /\ p = out_path(words[idx]) /\ fs[p] = Partial(words[idx])
        /\ \A p \in DOMAIN fs' :
              (p \notin DOMAIN fs \/ fs'[p] # fs[p]) =>
                  /\ pc \in {"try", "save"}
                  /\ DirectlyUnder(OUT_DIR, p)
                  /\ IsEncodedNameOf(BaseName(OUT_DIR, p), words[idx])
      ]_vars

\* a run that skipped a word whose file was there and synthesized another
C4_Witness ==
    /\ pc = "done"
    /\ \E j, k \in DOMAIN log :
          /\ log[j].kind = "skip" /\ out_path(log[j].w) \in DOMAIN fs0
          /\ fs[out_path(log[j].w)] = Old
          /\ log[k].kind = "generate" /\ out_path(log[k].w) \notin DOMAIN fs0
          /\ Complete(fs, out_path(log[k].w))

(***************************************************************************)
(* C6 (as stated): with words.txt missing or holding no non-blank line the *)
(* run exits with status 1, makes no synthesis call and leaves the         *)
(* filesystem as it was: no file written, nothing created.                 *)
(***************************************************************************)
C6_NoInputChangesNothing ==
    (NoInput /\ pc \notin {"start", "interrupted"}) =>
        /\ pc = "exit1"
        /\ log = <<>>
        /\ fs = fs0
        /\ dirExists = dir0

(***************************************************************************)
(* C6 (amended): with words.txt missing or holding no non-blank line the   *)
(* run exits with status 1 (and only then), makes no synthesis call and    *)
(* writes, changes and removes no file; with words.txt missing it creates  *)
(* nothing, with words.txt present the output directory exists afterwards  *)
(* (line 27 creates it before the list is found empty).                    *)
(***************************************************************************)
C6_NoInputWritesNoFile ==
    /\ (NoInput /\ pc \notin {"start", "interrupted"}) =>
          /\ pc = "exit1"
          /\ log = <<>>
          /\ fs = fs0
          /\ IF wordsFile.exists THEN dirExists ELSE dirExists = dir0
    /\ (pc = "exit1") => NoInput

\* a run over a words.txt of blank lines only that created the output directory
C6_Witness ==
    /\ pc = "exit1"
    /\ wordsFile.exists /\ wordsFile.lines # <<>>
    /\ dirExists /\ ~dir0

(***************************************************************************)
(* C5: the file name of a word is its percent-encoding followed by '.mp3', *)
(* the same for the same word, and two different words get different       *)
(* names: the second word never finds its path taken by the first.         *)
(***************************************************************************)
C5_DistinctWordsDistinctNames ==
    /\ \A k \in DOMAIN named : IsEncodedNameOf(named[k], pair[k])
    /\ Len(named) = 2 =>
          IF pair[1] # pair[2]
          THEN named[1] # named[2] /\ ~skipped[2]
          ELSE named[1] = named[2] /\ skipped[2]

\* two different words, the first with a character that must be encoded, both named
C5_Witness ==
    /\ Len(named) = 2
    /\ pair[1] # pair[2]
    /\ \E k \in DOMAIN pair[1] : pair[1][k] \notin AlwaysSafe
    /\ named[1] # named[2]

(***************************************************************************)
(* Vocabulary of the service's properties.                                 *)
(***************************************************************************)
TextMissing(r) == "text" \notin DOMAIN args[r] \/ args[r]["text"] = <<>>

SameIgnoringCase(s, t) ==
    /\ Len(s) = Len(t)
    /\ \A k \in DOMAIN s : s[k] = t[k] \/ (s[k] \in 65..90 /\ s[k] + 32 = t[k])

\* the engine call the request's own parameters ask for
OwnCall(r) ==
    [text |-> args[r]["text"],
     lang |-> IF "lang" \in DOMAIN args[r] THEN args[r]["lang"] ELSE <<104, 101>>,
     slow |-> /\ "slow" \in DOMAIN args[r]
              /\ \E t \in { <<49>>, <<116, 114, 117, 101>>, <<121, 101, 115>> } :
                     SameIgnoringCase(args[r]["slow"], t)]

\* the audio of the request's own engine call
OwnAudio(r) ==
    << [text |-> OwnCall(r).text, lang |-> OwnCall(r).lang,
        slow |-> OwnCall(r).slow, for |-> r] >>

(***************************************************************************)
(* C7: a request whose text is absent or empty, whatever lang and slow,    *)
(* is answered 400 with exactly {"error": "missing text parameter"}, and   *)
(* the engine is never invoked for it.                                     *)
(***************************************************************************)
C7_MissingTextIs400 ==
    \A r \in Requests :
        (spc[r] # "idle" /\ TextMissing(r)) =>
            /\ calls[r] = <<>>
            /\ result[r] = NoResult
            /\ spc[r] \in {"received", "responded"}
            /\ spc[r] = "responded" =>
                  /\ resp[r].status = 400
                  /\ resp[r].mimetype = "application/json"
                  /\ resp[r].json = [error |-> "missing text parameter"]

\* an answered request with text="" and another parameter given
C7_Witness ==
    \E r \in Requests :
        /\ spc[r] = "responded"
        /\ "text" \in DOMAIN args[r] /\ args[r]["text"] = <<>>
        /\ "lang" \in DOMAIN args[r]
        /\ resp[r].status = 400

(***************************************************************************)
(* C8 (as stated): a request with text for which the engine raises any     *)
(* error is answered 500 with error "tts failed" and a non-empty details.  *)
(***************************************************************************)
C8_FailureHasNonEmptyDetails ==
    \A r \in Requests :
        (spc[r] = "responded" /\ result[r].kind = "raised") =>
            /\ resp[r].status = 500
            /\ resp[r].json.error = "tts failed"
            /\ resp[r].json.details # ""

(***************************************************************************)
(* C8 (amended): a request with text for which the engine raises any error *)
(* is answered 500 with error "tts failed" and details equal to the        *)
(* error's message str(e) (non-empty exactly when the error carries a      *)
(* message); the request can be finished and new requests are accepted.    *)
(***************************************************************************)
C8_FailureIs500WithMessage ==
    \A r \in Requests :
        /\ (spc[r] = "responded" /\ result[r].kind = "raised") =>
              /\ ~TextMissing(r)
              /\ resp[r].status = 500
              /\ resp[r].mimetype = "application/json"
              /\ resp[r].json = [error |-> "tts failed", details |-> result[r].e.msg]
              /\ ENABLED Finish(r)
        /\ spc[r] = "idle" => ENABLED (\E q \in Queries : Receive(r, q))

\* a request answered 500 for an error that carries a message
C8_Witness ==
    \E r \in Requests :
        /\ spc[r] = "responded" /\ result[r].kind = "raised"
        /\ result[r].e.msg # ""
        /\ resp[r].status = 500 /\ resp[r].json.details = result[r].e.msg

C10_RequestsIndependent ==
    \A r \in Requests :
        /\ spc[r] \in {"synth", "written"} =>
              /\ bufOf[r] \in DOMAIN bufs
              /\ \A q \in Requests \ {r} : bufOf[q] # bufOf[r]
              /\ \A k \in DOMAIN bufs[bufOf[r]] : bufs[bufOf[r]][k].for = r
        /\ spc[r] = "written" => bufs[bufOf[r]] = OwnAudio(r)
        /\ spc[r] = "responded" =>
              IF TextMissing(r) THEN resp[r].status = 400
              ELSE IF result[r].kind = "raised"
                   THEN /\ resp[r].status = 500
                        /\ resp[r].json.details = result[r].e.msg
                   ELSE /\ resp[r].status = 200
                        /\ resp[r].data = OwnAudio(r)

\* two requests with different parameters, handled at the same time, both answered 200
C10_Witness ==
    \E r, q \in Requests :
        /\ r # q
        /\ spc[r] = "responded" /\ resp[r].status = 200
        /\ spc[q] = "responded" /\ resp[q].status = 200
        /\ args[r] # args[q]

====
